---- MODULE Spec2Model ----
(***************************************************************************)
(* Plex -> local mpv synchronisation (plex_taiga_sync_GUI.py).              *)
(*                                                                         *)
(* Strings are sequences of one-character strings, so that normalisation,  *)
(* substring tests and pattern formatting are computed character by        *)
(* character as the Python code computes them.  None is the empty          *)
(* sequence wherever the code only tests truthiness.                       *)
(***************************************************************************)
EXTENDS Integers, Sequences, FiniteSets, TLC

VARIABLES
    sync_running,      \* global flag read by every loop thread
    last_played_guid,  \* global: identifier remembered by the loop
    current_process,   \* global: Popen handle (NoProc = None)
    alive,             \* OS processes (pids) that have not exited
    matches_cache,     \* in-memory cache: key -> entry
    cache_file,        \* content of matches.json
    fs,                \* directories of the library that exist now
    disk_ok,           \* whether matches.json can be written
    gui,               \* main thread: "mainloop", "closed", "exited"
    pc,                \* per loop thread: position in sync_loop
    was_paused,        \* per loop thread: local of sync_loop
    snap,              \* per loop thread: session read in this cycle
    obs                \* what the last step called, sent and returned

vars == <<sync_running, last_played_guid, current_process, alive,
          matches_cache, cache_file, fs, disk_ok, gui, pc, was_paused,
          snap, obs>>

(***************************************************************************)
(* Characters and strings                                                  *)
(***************************************************************************)
UpperChars == <<"A","B","C","D","E","F","G","H","I","J","K","L","M",
                "N","O","P","Q","R","S","T","U","V","W","X","Y","Z">>
LowerChars == <<"a","b","c","d","e","f","g","h","i","j","k","l","m",
                "n","o","p","q","r","s","t","u","v","w","x","y","z">>
DigitChars == <<"0","1","2","3","4","5","6","7","8","9">>
SpaceChars == {" ", "\t", "\n"}

Range(s) == {s[i] : i \in 1..Len(s)}

\* the element of a one-element set: {e(x) : x \in {v}} names a value v once
Only(S) == CHOOSE x \in S : TRUE

\* the lower-case letter of each upper-case letter
LowerOf == [c \in Range(UpperChars) |->
              LowerChars[CHOOSE i \in 1..Len(UpperChars) : UpperChars[i] = c]]

\* str.lower() on one character
LowerChar(c) == IF c \in DOMAIN LowerOf THEN LowerOf[c] ELSE c

\* str.lower()
LowerStr(s) == [i \in 1..Len(s) |-> LowerChar(s[i])]

AlnumLower == Range(LowerChars) \cup Range(DigitChars)

\* the character class [a-z0-9]
IsAlnumLower(c) == c \in AlnumLower

\* needle in hay
Contains(hay, needle) ==
    \E i \in 0..(Len(hay) - Len(needle)) :
        SubSeq(hay, i + 1, i + Len(needle)) = needle

\* hay.startswith(prefix)
StartsWith(hay, prefix) ==
    /\ Len(prefix) <= Len(hay)
    /\ SubSeq(hay, 1, Len(prefix)) = prefix

\* hay.endswith(suffix)
EndsWith(hay, suffix) ==
    /\ Len(suffix) <= Len(hay)
    /\ SubSeq(hay, Len(hay) - Len(suffix) + 1, Len(hay)) = suffix

\* str.strip()
Strip(s) ==
    LET keep == {i \in 1..Len(s) : s[i] \notin SpaceChars}
    IN  IF keep = {} THEN <<>>
        ELSE LET lo == CHOOSE i \in keep : \A j \in keep : i <= j
                 hi == CHOOSE i \in keep : \A j \in keep : j <= i
             IN  SubSeq(s, lo, hi)

\* re.split(r'[\(\[]', name)[0]
SplitHead(s) ==
    LET cut == {i \in 1..Len(s) : s[i] \in {"(", "["}}
    IN  IF cut = {} THEN s
        ELSE SubSeq(s, 1, (CHOOSE i \in cut : \A j \in cut : i <= j) - 1)

normalize_title(name) ==
    IF name = <<>> THEN <<>>
    ELSE SelectSeq(LowerStr(name), IsAlnumLower)

\* a normalization that keeps the text after a bracket
clean_titleNoSplit(name) == normalize_title(name)

clean_title(name) ==
    IF name = <<>> THEN <<>>
    ELSE normalize_title(Strip(SplitHead(name)))

RECURSIVE DropTags(_)
\* re.sub(r'<[^>]+>', '', s): leftmost match first, then the rest
DropTags(s) ==
    LET starts == {i \in 1..Len(s) :
                     /\ s[i] = "<"
                     /\ \E j \in (i + 2)..Len(s) :
                          /\ s[j] = ">"
                          /\ \A k \in (i + 1)..(j - 1) : s[k] # ">"}
    IN  IF starts = {} THEN s
        ELSE LET i == CHOOSE a \in starts : \A b \in starts : a <= b
                 j == CHOOSE e \in (i + 2)..Len(s) :
                        /\ s[e] = ">"
                        /\ \A k \in (i + 1)..(e - 1) : s[k] # ">"
             IN  SubSeq(s, 1, i - 1) \o DropTags(SubSeq(s, j + 1, Len(s)))

\* the character U+00A0 (no-break space)
Nbsp == "U+00A0"

\* the characters that end the name of a character reference:
\* the class [^\t\n\f <&#;] of html.unescape
NameStop == {"\t", "\n", "\f", " ", "<", "&", "#", ";"}

\* html.entities.html5 for the references of the modelled texts: name
\* (with its ";" when the table has it so) and replacement
Html5 ==
    { << <<"a","m","p",";">>, "&" >>,      << <<"a","m","p">>, "&" >>,
      << <<"l","t",";">>, "<" >>,          << <<"l","t">>, "<" >>,
      << <<"g","t",";">>, ">" >>,          << <<"g","t">>, ">" >>,
      << <<"q","u","o","t",";">>, "\"" >>, << <<"q","u","o","t">>, "\"" >>,
      << <<"n","b","s","p",";">>, Nbsp >>, << <<"n","b","s","p">>, Nbsp >>,
      << <<"a","p","o","s",";">>, "'" >> }

InHtml5(name) == \E e \in Html5 : e[1] = name

\* chr(n) for the code points of the modelled texts
CharOfCode ==
    [n \in {9, 10, 32, 34, 38, 39, 60, 62, 160}
              \cup (48..57) \cup (65..90) \cup (97..122) |->
       IF n = 9 THEN "\t" ELSE IF n = 10 THEN "\n"
       ELSE IF n = 32 THEN " " ELSE IF n = 34 THEN "\"" ELSE IF n = 38 THEN "&"
       ELSE IF n = 39 THEN "'" ELSE IF n = 60 THEN "<" ELSE IF n = 62 THEN ">"
       ELSE IF n = 160 THEN Nbsp
       ELSE IF n <= 57 THEN DigitChars[n - 47]
       ELSE IF n <= 90 THEN UpperChars[n - 64]
       ELSE LowerChars[n - 96]]

HexChars == <<"0","1","2","3","4","5","6","7","8","9","a","b","c","d","e","f">>

\* value of one digit in the given base
DigitVal(c) ==
    CHOOSE v \in 0..15 : HexChars[v + 1] = LowerChar(c)

RECURSIVE NumVal(_, _)
\* int(digits, base)
NumVal(digits, base) ==
    IF digits = <<>> THEN 0
    ELSE NumVal(SubSeq(digits, 1, Len(digits) - 1), base) * base
           + DigitVal(digits[Len(digits)])

\* number of characters of s from position i on that lie in allowed, at
\* most max
RunInside(s, i, allowed, max) ==
    LET out == {j \in i..Len(s) : s[j] \notin allowed}
        end == IF out = {} THEN Len(s) + 1
               ELSE CHOOSE j \in out : \A k \in out : j <= k
    IN  IF end - i > max THEN max ELSE end - i

\* number of characters of s from position i on that lie outside stop, at
\* most max
RunOutside(s, i, stop, max) ==
    LET in == {j \in i..Len(s) : s[j] \in stop}
        end == IF in = {} THEN Len(s) + 1
               ELSE CHOOSE j \in in : \A k \in in : j <= k
    IN  IF end - i > max THEN max ELSE end - i

\* 1 when s has ";" at position i, else 0: the optional ";" of a reference
Semi(s, i) == IF i <= Len(s) /\ s[i] = ";" THEN 1 ELSE 0

\* the replacement of a numeric reference: chr(num); a code point beyond
\* CharOfCode is left as written
NumericRef(written, num) ==
    IF num \in DOMAIN CharOfCode THEN <<CharOfCode[num]>> ELSE written

\* the replacement of a named reference (text after "&", with its ";"):
\* the table entry of the name, else of its longest prefix that has one,
\* followed by the rest of the name, else the text as written
NamedRef(name) ==
    IF InHtml5(name) THEN <<(CHOOSE e \in Html5 : e[1] = name)[2]>>
    ELSE LET pre == {x \in 2..(Len(name) - 1) : InHtml5(SubSeq(name, 1, x))}
         IN  IF pre = {} THEN <<"&">> \o name
             ELSE LET x == CHOOSE a \in pre : \A b \in pre : b <= a
                  IN  <<(CHOOSE e \in Html5 : e[1] = SubSeq(name, 1, x))[2]>>
                        \o SubSeq(name, x + 1, Len(name))

\* the character reference at the head of s (s[1] = "&"): the length of the
\* match of &(#[0-9]+;?|#[xX][0-9a-fA-F]+;?|[^\t\n\f <&#;]{1,32};?) and its
\* replacement; len = 0 when the pattern does not match
CharRef(s) ==
    IF Len(s) >= 3 /\ s[2] = "#" /\ s[3] \in Range(DigitChars)
    THEN LET n == RunInside(s, 3, Range(DigitChars), Len(s))
             len == 2 + n + Semi(s, 3 + n)
         IN  [len |-> len,
              text |-> NumericRef(SubSeq(s, 1, len),
                                  NumVal(SubSeq(s, 3, 2 + n), 10))]
    ELSE IF /\ Len(s) >= 4 /\ s[2] = "#" /\ s[3] \in {"x", "X"}
            /\ LowerChar(s[4]) \in Range(HexChars)
    THEN LET hex == Range(HexChars) \cup {"A","B","C","D","E","F"}
             n == RunInside(s, 4, hex, Len(s))
             len == 3 + n + Semi(s, 4 + n)
         IN  [len |-> len,
              text |-> NumericRef(SubSeq(s, 1, len),
                                  NumVal(SubSeq(s, 4, 3 + n), 16))]
    ELSE LET n == RunOutside(s, 2, NameStop, 32)
             len == 1 + n + Semi(s, 2 + n)
         IN  IF n = 0 THEN [len |-> 0, text |-> <<>>]
             ELSE [len |-> len, text |-> NamedRef(SubSeq(s, 2, len))]

RECURSIVE Unescape(_)
\* html.unescape: every character reference replaced, left to right
Unescape(s) ==
    IF s = <<>> THEN <<>>
    ELSE IF s[1] # "&" THEN <<s[1]>> \o Unescape(Tail(s))
    ELSE LET m == CharRef(s)
         IN  IF m.len = 0 THEN <<"&">> \o Unescape(Tail(s))
             ELSE m.text \o Unescape(SubSeq(s, m.len + 1, Len(s)))

\* strip_html_tags: the entities unescaped first, then the tags removed
strip_html_tags(s) == IF s = <<>> THEN <<>> ELSE DropTags(Unescape(s))

(***************************************************************************)
(* Metadata resolver                                                       *)
(*                                                                         *)
(* A JSON value is [t, s]: a string (t = "str", s its text), null          *)
(* (t = "none") or a value of another type (t = "bad"), on which a string  *)
(* operation raises.  A provider response is                               *)
(*   [sent, status, json_ok, media]                                        *)
(* sent = FALSE: requests.post raised (timeout, transport error);          *)
(* json_ok = FALSE: r.json() or the walk down to "Media" raised;           *)
(* media = <<>>: data.Media is null, else <<record>>.                      *)
(***************************************************************************)
Str(s) == [t |-> "str", s |-> s]
Null == [t |-> "none", s |-> <<>>]
Bad == [t |-> "bad", s |-> <<>>]

\* Python truthiness of a JSON value
Truthy(v) == v.t = "bad" \/ (v.t = "str" /\ v.s # <<>>)

NoMeta == <<>>

\* v or ""
OrEmpty(v) == IF Truthy(v) THEN v.s ELSE <<>>

\* the values whose clean_title is added to names, in the order of the code
NameValues(data) == <<data.romaji, data.english, data.native>> \o data.synonyms

\* names collected from the first n values (each falsy value is skipped)
NamesUpTo(vals, n) ==
    {clean_title(vals[i].s) : i \in {j \in 1..n : Truthy(vals[j])}}

\* index of the first value on which clean_title raises, 0 if none
FirstBad(vals) ==
    LET bads == {i \in 1..Len(vals) : vals[i].t = "bad"}
    IN  IF bads = {} THEN 0 ELSE CHOOSE i \in bads : \A j \in bads : i <= j

\* the metadata dict built from a well-formed Media object
MetaOf(data) ==
    [id |-> data.id,
     romaji |-> OrEmpty(data.romaji),
     english |-> OrEmpty(data.english),
     native |-> OrEmpty(data.native),
     synopsis |-> strip_html_tags(OrEmpty(data.description)),
     cover_image_url |-> data.cover]

\* lines 226-247 on a Media object: the names added before the block
\* returns or raises, and the record (NoMeta when it raised)
ExtractMedia(title, data) ==
    Only({ IF b # 0
           THEN [names |-> NamesUpTo(NameValues(data), b - 1), meta |-> NoMeta]
           ELSE [names |-> NamesUpTo(NameValues(data), Len(NameValues(data)))
                             \cup {clean_title(title)},
                 meta |-> IF data.description.t = "bad" \/ data.cover.t = "bad"
                          THEN NoMeta ELSE <<MetaOf(data)>>] :
           b \in {FirstBad(NameValues(data))} })

\* the fallback after the try block (lines 252-254)
Fallback(title, got) ==
    IF got.meta # NoMeta THEN got
    ELSE [names |-> got.names \cup {clean_title(title)}, meta |-> NoMeta]

get_anilist_metadata(title, resp) ==
    IF resp.sent /\ resp.status = 200 /\ resp.json_ok /\ resp.media # <<>>
    THEN Only({Fallback(title, got) : got \in {ExtractMedia(title, resp.media[1])}})
    ELSE [names |-> {clean_title(title)}, meta |-> NoMeta]

TVDB_API_KEY == TRUE

\* get_tvdb_titles: tv = [ok, items]; ok = FALSE when the login or the
\* search fails or raises before any item is read
get_tvdb_titles(title, tv) ==
    IF ~TVDB_API_KEY THEN {}
    ELSE IF ~tv.ok THEN {}
    ELSE LET b == FirstBad(tv.items)
         IN  NamesUpTo(tv.items, IF b = 0 THEN Len(tv.items) ELSE b - 1)

(***************************************************************************)
(* Library on disk                                                         *)
(***************************************************************************)
ANIME_FOLDERS == <<"r1", "r2">>

\* os.listdir order of each root; files is the os.walk order of a folder
Listing(base) ==
    IF base = "r1"
    THEN << [name |-> <<"a","b",".","t","x","t">>, dir |-> FALSE, files |-> <<>>],
            [name |-> <<"A","b"," ","[","x","]">>, dir |-> TRUE,
             files |-> << <<"A","b"," ","S","0","1","E","0","1",".","n","f","o">>,
                          <<"A","b"," ","S","0","1","E","0","1",".","M","K","V">>,
                          <<"A","b"," ","-"," ","1","x","3",".","m","p","4">> >>],
            [name |-> <<"C","d","e">>, dir |-> TRUE, files |-> <<>>] >>
    ELSE << [name |-> <<"c","-","D">>, dir |-> TRUE, files |-> <<>>],
            [name |-> <<"a","b","c">>, dir |-> TRUE,
             files |-> << <<"s","1","e","1",".","m","k","v">> >>] >>

NoPath == <<>>

\* os.path.join(base, entry)
JoinPath(base, name) == <<base, name>>

AllPaths ==
    UNION {{JoinPath(ANIME_FOLDERS[r], Listing(ANIME_FOLDERS[r])[i].name) :
              i \in 1..Len(Listing(ANIME_FOLDERS[r]))} :
           r \in 1..Len(ANIME_FOLDERS)}

\* os.listdir(base): the entries of the root that exist, in listing order
ListDir(base, fsNow) ==
    SelectSeq(Listing(base), LAMBDA e : JoinPath(base, e.name) \in fsNow)

\* the library entry a path names
EntryOf(path) ==
    LET l == Listing(path[1])
    IN  l[CHOOSE i \in 1..Len(l) : l[i].name = path[2]]

(***************************************************************************)
(* Match cache                                                             *)
(*                                                                         *)
(* A key is <<"guid", g>> or <<"title", k>> ("guid:<g>", "title:<k>"); an  *)
(* entry is [path, meta]: path = NoPath when the dict has no "path",       *)
(* meta = NoMeta when it has no "meta" ("anilist_id" is meta.id and is     *)
(* written with it).                                                       *)
(***************************************************************************)
GuidKey(guid) == <<"guid", guid>>
TitleKey(title_key) == <<"title", title_key>>

\* matches_cache.pop(key, None)
Pop(cache, key) == [k \in (DOMAIN cache) \ {key} |-> cache[k]]

\* matches_cache[key] = entry
Put(cache, key, entry) ==
    [k \in (DOMAIN cache) \cup {key} |-> IF k = key THEN entry ELSE cache[k]]

\* save_cache: the file takes the content of the cache unless the write raises
save_cache(cache, file) == IF disk_ok THEN cache ELSE file

\* load_cache
load_cache(file) == file

(***************************************************************************)
(* Local library matcher                                                   *)
(***************************************************************************)
\* a rule that only looks for the candidate inside the entry
folder_name_matchesOneWay(entry_clean, candidate_clean) ==
    /\ entry_clean # <<>> /\ candidate_clean # <<>>
    /\ (Contains(entry_clean, candidate_clean)
          \/ StartsWith(entry_clean, candidate_clean))

\* lines 367-374
folder_name_matches(entry_clean, candidate_clean) ==
    IF entry_clean = <<>> \/ candidate_clean = <<>> THEN FALSE
    ELSE IF entry_clean = candidate_clean THEN TRUE
    ELSE IF Contains(entry_clean, candidate_clean) THEN TRUE
    ELSE IF Contains(candidate_clean, entry_clean) THEN TRUE
    ELSE IF StartsWith(entry_clean, candidate_clean)
            \/ StartsWith(candidate_clean, entry_clean) THEN TRUE
    ELSE FALSE

\* a scan that keeps the last matching directory of a listing
LastHit(l, names) ==
    Only({ IF hits = {} THEN 0 ELSE CHOOSE i \in hits : \A j \in hits : i >= j :
           hits \in {{i \in 1..Len(l) :
                        /\ l[i].dir
                        /\ \E candidate \in names :
                             folder_name_matches(clean_title(l[i].name),
                                                 candidate)}} })

\* index of the first directory of a listing that matches a candidate, 0 if none
FirstHit(l, names) ==
    Only({ IF hits = {} THEN 0 ELSE CHOOSE i \in hits : \A j \in hits : i <= j :
           hits \in {{i \in 1..Len(l) :
                        /\ l[i].dir
                        /\ \E candidate \in names :
                             folder_name_matches(clean_title(l[i].name),
                                                 candidate)}} })

\* first directory of one root that matches a candidate, NoPath if none
ScanRoot(base, names, fsNow) ==
    Only({ IF FirstHit(l, names) = 0 THEN NoPath
           ELSE JoinPath(base, l[FirstHit(l, names)].name) :
           l \in {ListDir(base, fsNow)} })

RECURSIVE ScanFromAbort(_, _, _, _)
\* a scan that ends at the first root that cannot be listed
ScanFromAbort(r, names, fsNow, unreadable) ==
    IF r > Len(ANIME_FOLDERS) \/ ANIME_FOLDERS[r] \in unreadable THEN NoPath
    ELSE Only({ IF hit # NoPath THEN hit
                ELSE ScanFromAbort(r + 1, names, fsNow, unreadable) :
                hit \in {ScanRoot(ANIME_FOLDERS[r], names, fsNow)} })

RECURSIVE ScanFrom(_, _, _, _)
\* the roots from the r-th on, in configured order; os.listdir raises on
\* the roots of unreadable and the scan goes on with the next root
ScanFrom(r, names, fsNow, unreadable) ==
    IF r > Len(ANIME_FOLDERS) THEN NoPath
    ELSE Only({ IF hit # NoPath THEN hit
                ELSE ScanFrom(r + 1, names, fsNow, unreadable) :
                hit \in {IF ANIME_FOLDERS[r] \in unreadable THEN NoPath
                         ELSE ScanRoot(ANIME_FOLDERS[r], names, fsNow)} })

\* os.path.exists on a cached path
PathExists(path, fsNow) == path # NoPath /\ path \in fsNow

\* a lookup that reports a stale entry as a miss and leaves it in the cache
CacheLookupKeep(key, cache, file, fsNow) ==
    IF key \in DOMAIN cache /\ PathExists(cache[key].path, fsNow)
    THEN [hit |-> TRUE, path |-> cache[key].path, cache |-> cache,
          file |-> file, evicted |-> {}]
    ELSE [hit |-> FALSE, path |-> NoPath, cache |-> cache, file |-> file,
          evicted |-> {}]

\* one cache lookup of find_series_folder (steps 1 and 2): a hit when the
\* key is cached with a path that exists; a cached key without such a path
\* is popped and the cache saved
CacheLookup(key, cache, file, fsNow) ==
    IF key \notin DOMAIN cache
    THEN [hit |-> FALSE, path |-> NoPath, cache |-> cache, file |-> file,
          evicted |-> {}]
    ELSE IF PathExists(cache[key].path, fsNow)
    THEN [hit |-> TRUE, path |-> cache[key].path, cache |-> cache,
          file |-> file, evicted |-> {}]
    ELSE [hit |-> FALSE, path |-> NoPath, cache |-> Pop(cache, key),
          file |-> save_cache(Pop(cache, key), file), evicted |-> {key}]

\* a match written under the title key alone
PutTitleOnly(cache, plex_guid, tk, entry) == Put(cache, tk, entry)

\* the two cache writes of a match (lines 428-435)
PutBoth(cache, plex_guid, tk, entry) ==
    Put(IF plex_guid # <<>> THEN Put(cache, GuidKey(plex_guid), entry)
        ELSE cache, tk, entry)

\* lines 424-446 for the folder the scan found (NoPath: none)
StoreMatch(plex_guid, tk, cache, file, meta, full, evicted) ==
    IF full # NoPath
    THEN Only({ [path |-> full, cache |-> cache3,
                 file |-> save_cache(cache3, file), via |-> "scan",
                 meta_calls |-> 1, scanned |-> TRUE, evicted |-> evicted] :
                cache3 \in {PutBoth(cache, plex_guid, tk,
                                    [path |-> full, meta |-> meta])} })
    ELSE [path |-> NoPath, cache |-> cache, file |-> file, via |-> "none",
          meta_calls |-> 1, scanned |-> TRUE, evicted |-> evicted]

\* the candidate names (lines 408-414)
Candidates(title_key, names_al, names_tvdb) ==
    names_al \cup {title_key} \cup names_tvdb

\* step 3 and the scan (lines 407-446): candidates from the providers, the
\* scan of the roots, and the two cache writes on a match
ScanAndStore(title, plex_guid, tk, cache, file, fsNow, env, evicted) ==
    Only({ Only({ StoreMatch(plex_guid, tk, cache, file, al.meta, full, evicted) :
                  full \in {ScanFrom(1, Candidates(tk[2], al.names,
                                         IF TVDB_API_KEY
                                         THEN get_tvdb_titles(title, env.tv)
                                         ELSE {}),
                                     fsNow, env.unreadable)} }) :
           al \in {get_anilist_metadata(title, env.resp)} })

\* step 2 (lines 395-405) after a miss of step 1 that popped evicted
TitleLookup(tk, cache, file, fsNow, evicted) ==
    Only({ [hit |-> l2.hit, path |-> l2.path, cache |-> l2.cache,
            file |-> l2.file, via |-> IF l2.hit THEN "title" ELSE "none",
            evicted |-> evicted \cup l2.evicted] :
           l2 \in {CacheLookup(tk, cache, file, fsNow)} })

NoLookup(cache, file) ==
    [hit |-> FALSE, path |-> NoPath, cache |-> cache, file |-> file,
     evicted |-> {}]

\* steps 1 and 2 of find_series_folder (lines 381-405), up to the call of
\* the provider: [hit, path, cache, file, via, evicted]
CacheLookups(title, plex_guid, cache, file, fsNow) ==
    Only({ IF l1.hit
           THEN [hit |-> TRUE, path |-> l1.path, cache |-> l1.cache,
                 file |-> l1.file, via |-> "guid", evicted |-> {}]
           ELSE TitleLookup(TitleKey(clean_title(title)), l1.cache, l1.file,
                            fsNow, l1.evicted) :
           l1 \in {IF plex_guid # <<>>
                   THEN CacheLookup(GuidKey(plex_guid), cache, file, fsNow)
                   ELSE NoLookup(cache, file)} })

\* find_series_folder while nothing else runs.  env = [resp, tv,
\* unreadable]: what the provider calls and the directory listings of this
\* call yield.  Result: the returned path, the cache and the file after the
\* call, and what the call did: via ("guid", "title", "scan", "none"), the
\* provider calls made, whether the roots were listed and the keys popped.
find_series_folder(title, plex_guid, cache, file, fsNow, env) ==
    Only({ IF l.hit
           THEN [path |-> l.path, cache |-> l.cache, file |-> l.file,
                 via |-> l.via, meta_calls |-> 0, scanned |-> FALSE,
                 evicted |-> l.evicted]
           ELSE ScanAndStore(title, plex_guid, TitleKey(clean_title(title)),
                             l.cache, l.file, fsNow, env, l.evicted) :
           l \in {CacheLookups(title, plex_guid, cache, file, fsNow)} })

(***************************************************************************)
(* Local episode finder                                                    *)
(***************************************************************************)
RECURSIVE Digits(_)
\* str(n) for n >= 0
Digits(n) ==
    IF n < 10 THEN <<DigitChars[n + 1]>>
    ELSE Digits(n \div 10) \o <<DigitChars[(n % 10) + 1]>>

\* f"{n:02}"
Pad2(n) == IF n < 10 THEN <<"0">> \o Digits(n) ELSE Digits(n)

VideoExts == { <<".","m","k","v">>, <<".","m","p","4">>, <<".","a","v","i">>,
               <<".","m","4","v">>, <<".","t","s">>, <<".","w","e","b","m">> }

NoFile == <<>>

\* int(x or 1)
IntOr1(x) == IF x = 0 THEN 1 ELSE x

\* a file test that looks at the pattern alone
EpisodeFileMatchesAnyExt(file, s, e) ==
    \E low \in {LowerStr(file)} :
        \/ Contains(low, <<"s">> \o Pad2(s) \o <<"e">> \o Pad2(e))
        \/ Contains(low, Digits(s) \o <<"x">> \o Digits(e))

\* the file test of the walk: extension, then either pattern
EpisodeFileMatches(file, s, e) ==
    \E low \in {LowerStr(file)} :
        /\ \E ext \in VideoExts : EndsWith(low, ext)
        /\ \/ Contains(low, <<"s">> \o Pad2(s) \o <<"e">> \o Pad2(e))
           \/ Contains(low, Digits(s) \o <<"x">> \o Digits(e))

\* the walk over a matched folder: first matching file in traversal order
WalkFolder(folder, s, e) ==
    Only({ Only({ IF hits = {} THEN NoFile
                  ELSE <<folder, files[CHOOSE i \in hits : \A j \in hits : i <= j]>> :
                  hits \in {{i \in 1..Len(files) :
                               EpisodeFileMatches(files[i], s, e)}} }) :
           files \in {EntryOf(folder).files} })

\* find_local_episode: the result of find_series_folder with the file found
find_local_episode(title, season_num, episode_num, plex_guid, cache, file, fsNow, env) ==
    Only({ [r EXCEPT !.path = IF r.path = NoPath THEN NoFile
                              ELSE WalkFolder(r.path, IntOr1(season_num),
                                              IntOr1(episode_num))] :
           r \in {find_series_folder(title, plex_guid, cache, file, fsNow, env)} })

(***************************************************************************)
(* Player control                                                          *)
(***************************************************************************)
MaxProcs == 2
Pids == 1..MaxProcs
NoProc == 0

\* is_mpv_running(): a handle whose process has not exited
is_mpv_running(proc, live) == proc # NoProc /\ proc \in live

\* stop_mpv: [proc, live, raised] after the call.  With a running player
\* it logs first (line 500): log_ok = FALSE is gui_log raising, which leaves
\* the call before terminate() and before the handle is cleared.  Then
\* terminate() either ends the process or raises and leaves it running; the
\* handle is cleared in both cases
stop_mpv(proc, live, term_ok, log_ok) ==
    IF ~is_mpv_running(proc, live)
    THEN [proc |-> proc, live |-> live, raised |-> FALSE]
    ELSE IF ~log_ok
    THEN [proc |-> proc, live |-> live, raised |-> TRUE]
    ELSE [proc |-> NoProc, live |-> IF term_ok THEN live \ {proc} ELSE live,
          raised |-> FALSE]

\* pid of the next process started: one that no running process has (the
\* pid of a process that has exited is free again)
FreshPid(live) ==
    LET free == Pids \ live
    IN  IF free = {} THEN NoProc ELSE CHOOSE p \in free : \A q \in free : p <= q

\* subprocess.Popen of play_with_mpv (lines 479-496): [proc, live, started]
\* after it; Popen either starts a new process, whose handle is assigned,
\* or raises and nothing is assigned
play_with_mpv(proc, live, popen_ok) ==
    LET pid == FreshPid(live)
    IN  IF popen_ok /\ pid # NoProc
        THEN [proc |-> pid, live |-> live \cup {pid}, started |-> TRUE]
        ELSE [proc |-> proc, live |-> live, started |-> FALSE]

\* get_mpv_playback_time in milliseconds.  reply = [ok, data]: ok = FALSE
\* when the pipe cannot be opened or the reply does not parse (RuntimeError,
\* result <<>>); data = <<>> when the reply holds no "data" value
get_mpv_playback_time(reply) ==
    IF ~reply.ok THEN <<>>
    ELSE IF reply.data = <<>> THEN <<0>>
    ELSE reply.data

DriftLimit == 5

Abs(x) == IF x < 0 THEN -x ELSE x

\* drift correction that also seeks at a difference of exactly DriftLimit
DriftCommandsAtLimit(view_offset, reply) ==
    LET mpv_time == get_mpv_playback_time(reply)
    IN  IF mpv_time # <<>> /\ Abs(mpv_time[1] - view_offset) >= DriftLimit * 1000
        THEN << [cmd |-> "seek", arg |-> view_offset \div 1000] >>
        ELSE <<>>

\* drift correction once the position query has returned (lines 596-602):
\* the seek commands sent.  view_offset is session.viewOffset (milliseconds)
DriftCommands(view_offset, reply) ==
    LET mpv_time == get_mpv_playback_time(reply)
    IN  IF mpv_time # <<>> /\ Abs(mpv_time[1] - view_offset) > DriftLimit * 1000
        THEN << [cmd |-> "seek", arg |-> view_offset \div 1000] >>
        ELSE <<>>

\* pause handling driven by the level of the flag instead of its edges
PauseCommandsLevel(running, is_paused, wp) ==
    IF running /\ is_paused
    THEN [cmds |-> << [cmd |-> "pause", arg |-> 1] >>, was_paused |-> TRUE]
    ELSE IF running /\ wp
    THEN [cmds |-> << [cmd |-> "pause", arg |-> 0] >>, was_paused |-> FALSE]
    ELSE [cmds |-> <<>>, was_paused |-> wp]

\* pause/resume handling of one cycle (lines 613-622): the commands sent
\* and was_paused after it
PauseCommands(running, is_paused, wp) ==
    IF running /\ is_paused /\ ~wp
    THEN [cmds |-> << [cmd |-> "pause", arg |-> 1] >>, was_paused |-> TRUE]
    ELSE IF running /\ ~is_paused /\ wp
    THEN [cmds |-> << [cmd |-> "pause", arg |-> 0] >>, was_paused |-> FALSE]
    ELSE [cmds |-> <<>>, was_paused |-> wp]

(***************************************************************************)
(* Synchronisation loop                                                    *)
(***************************************************************************)
NoGuid == <<>>
G1 == <<"g","1">>
G2 == <<"g","2">>
TitleAb == <<"A","b">>

\* what get_user_session can return: guid, grandparentTitle, parentIndex, index
Sessions ==
    { [guid |-> G1, title |-> TitleAb, season |-> 1, episode |-> 1],
      [guid |-> G2, title |-> <<"Z">>, season |-> 0, episode |-> 2] }

\* session.viewOffset, milliseconds
ViewOffsets == {100000}

NoReply == [ok |-> FALSE, data |-> <<>>]

\* replies of the player to the time-pos query
Replies ==
    { NoReply, [ok |-> TRUE, data |-> <<>>] }
      \cup {[ok |-> TRUE, data |-> <<t>>] : t \in {94000, 95000}}

MediaAb ==
    [id |-> 7, romaji |-> Str(TitleAb), english |-> Null, native |-> Null,
     synonyms |-> <<>>, description |-> Str(<<"<","i",">","x","&","a","m","p",";","y">>),
     cover |-> Null]

RespFail == [sent |-> FALSE, status |-> 0, json_ok |-> FALSE, media |-> <<>>]
RespOk(media) == [sent |-> TRUE, status |-> 200, json_ok |-> TRUE, media |-> <<media>>]

TvFail == [ok |-> FALSE, items |-> <<>>]

\* provider outcomes seen by the loop: the provider knows one series
LoopEnvs(title) ==
    { [resp |-> r, tv |-> TvFail, unreadable |-> {}] :
        r \in IF title = TitleAb THEN {RespFail, RespOk(MediaAb)} ELSE {RespFail} }

\* the folder that is deleted and restored while the cache is in use
LoopVolatile == { JoinPath("r1", <<"A","b"," ","[","x","]">>) }

MaxWorkers == 2
Workers == 1..MaxWorkers

NoSnap == <<>>

NoObs ==
    [step |-> "other", guid |-> NoGuid, is_paused |-> FALSE, view_offset |-> 0,
     query |-> <<>>, sent |-> <<>>, meta_calls |-> 0,
     scanned |-> FALSE, via |-> "none", launch |-> "none", evicted |-> {},
     decision |-> "none", stored |-> {}, escaped |-> FALSE]

\* gui_log (lines 163-175) writes into the text box of the window: the call
\* returns while the window exists and raises once app.destroy() has run
gui_log(window) == window = "mainloop"

\* outcomes of terminate() that matter in the current state
TermOutcomes ==
    IF is_mpv_running(current_process, alive) THEN BOOLEAN ELSE {TRUE}

\* outcomes of Popen: it starts a process or raises; the model holds at
\* most MaxProcs processes
PopenOutcomes ==
    IF FreshPid(alive) = NoProc THEN {FALSE} ELSE BOOLEAN

\* the places at which a thread of sync_loop waits inside a cycle: in
\* get_anilist_metadata (line 582), in get_mpv_playback_time (line 596), in
\* the provider calls of find_series_folder (lines 408-412), in
\* subprocess.Popen (line 480), and between the return of play_with_mpv and
\* line 614
Waits == {"meta", "query", "lookup", "popen", "launched"}

\* the locals of a cycle that the rest of the cycle reads (lines 560-566)
SessionLocals(s, is_paused, view_offset) ==
    [guid |-> s.guid, title |-> s.title, season |-> IntOr1(s.season),
     episode |-> IntOr1(s.episode), is_paused |-> is_paused,
     view_offset |-> view_offset]

NoSession ==
    [guid |-> NoGuid, title |-> <<>>, season |-> 1, episode |-> 1,
     is_paused |-> FALSE, view_offset |-> 0]

\* what thread w sees and may change when it takes a step of a cycle, with
\* the record of what the step does
Frame(w, step, sess) ==
    [pc |-> pc[w], proc |-> current_process, live |-> alive,
     last |-> last_played_guid, cache |-> matches_cache, file |-> cache_file,
     wp |-> was_paused[w],
     obs |-> [NoObs EXCEPT !.step = step, !.guid = sess.guid,
                           !.is_paused = sess.is_paused,
                           !.view_offset = sess.view_offset]]

\* the step of thread w ends in st
Commit(w, st, sess) ==
    /\ current_process' = st.proc
    /\ alive' = st.live
    /\ last_played_guid' = st.last
    /\ matches_cache' = st.cache
    /\ cache_file' = st.file
    /\ was_paused' = [was_paused EXCEPT ![w] = st.wp]
    /\ pc' = [pc EXCEPT ![w] = st.pc]
    /\ snap' = [snap EXCEPT ![w] = IF st.pc \in Waits THEN <<sess>> ELSE NoSnap]
    /\ obs' = st.obs
    /\ UNCHANGED <<sync_running, fs, disk_ok, gui>>

\* gui_log raised inside the cycle: the handler of line 628 calls gui_log,
\* which raises again, and the exception ends sync_loop and its thread
Escape(st) == [st EXCEPT !.pc = "done", !.obs.escaped = TRUE]

\* an exception of the cycle reaches the handler of line 628, which logs it;
\* then the sleep of line 630
CycleErrorCaught(st, log_ok) ==
    IF log_ok THEN [st EXCEPT !.pc = "sleep"] ELSE Escape(st)

\* pause/resume handling (lines 613-622) and the way to the sleep: the
\* command is sent, then logged, then was_paused is assigned
Mirror(st, sess, log_ok) ==
    Only({ IF pr.cmds # <<>> /\ ~log_ok
           THEN Escape([st EXCEPT !.obs.sent = @ \o pr.cmds])
           ELSE [st EXCEPT !.pc = "sleep", !.wp = pr.was_paused,
                           !.obs.sent = @ \o pr.cmds] :
           pr \in {PauseCommands(is_mpv_running(st.proc, st.live),
                                 sess.is_paused, st.wp)} })

\* find_series_folder has returned folder (NoPath: None): the rest of
\* find_local_episode (lines 453-471), lines 607 and 610-611, and the head
\* of play_with_mpv up to the call of Popen (line 478).  Every way here and
\* on passes gui_log (389, 401, 426, 444, 456, 463, 478, 611)
AfterFolder(st, sess, folder, log_ok) ==
    IF ~log_ok THEN Escape(st)
    ELSE IF folder = NoPath
    THEN Mirror([st EXCEPT !.obs.launch = "nofile"], sess, log_ok)
    ELSE IF WalkFolder(folder, IntOr1(sess.season), IntOr1(sess.episode)) = NoFile
    THEN Mirror([st EXCEPT !.obs.launch = "nofile"], sess, log_ok)
    ELSE [st EXCEPT !.pc = "popen"]

\* a relaunch decision that looks at the identifier alone
NeedsLaunchGuidOnly(guid, last, running) == guid # last

\* the relaunch decision (line 604)
NeedsLaunch(guid, last, running) == guid # last \/ ~running

\* line 604 to the next wait of the cycle: is_mpv_running is polled again;
\* with a relaunch due, stop_mpv and steps 1 and 2 of find_series_folder,
\* which end in a folder or in the call of the provider; else the pause
\* handling
Decide(st, sess, fsNow, term_ok, log_ok) ==
    IF ~NeedsLaunch(sess.guid, st.last, is_mpv_running(st.proc, st.live))
    THEN Mirror([st EXCEPT !.obs.decision = "keep"], sess, log_ok)
    ELSE Only({ IF sm.raised
                THEN Escape([st EXCEPT !.obs.decision = "launch"])
                ELSE Only({ Only({ IF l.hit THEN AfterFolder(st1, sess, l.path, log_ok)
                                   ELSE [st1 EXCEPT !.pc = "lookup"] :
                                   st1 \in {[st EXCEPT !.proc = sm.proc,
                                                       !.live = sm.live,
                                                       !.cache = l.cache,
                                                       !.file = l.file,
                                                       !.obs.decision = "launch",
                                                       !.obs.via = l.via,
                                                       !.obs.evicted = l.evicted]} }) :
                            l \in {CacheLookups(sess.title, sess.guid,
                                                st.cache, st.file, fsNow)} }) :
                sm \in {stop_mpv(st.proc, st.live, term_ok, log_ok)} })

\* line 594 to the next wait of the cycle: with a running player and a
\* session that is not paused, the position query; else line 604
Drift(st, sess, fsNow, term_ok, log_ok) ==
    IF is_mpv_running(st.proc, st.live) /\ ~sess.is_paused
    THEN [st EXCEPT !.pc = "query"]
    ELSE Decide(st, sess, fsNow, term_ok, log_ok)

\* while sync_running (line 556): the flag is read true and the thread calls
\* get_user_session
LoopCheck(w) ==
    /\ pc[w] = "check" /\ sync_running /\ gui # "exited"
    /\ pc' = [pc EXCEPT ![w] = "poll"]
    /\ obs' = NoObs
    /\ UNCHANGED <<sync_running, last_played_guid, current_process, alive,
                   matches_cache, cache_file, fs, disk_ok, gui, was_paused, snap>>

\* get_user_session raised
CycleError(w) ==
    /\ pc[w] = "poll" /\ gui # "exited"
    /\ \E st \in {CycleErrorCaught(Frame(w, "error", NoSession), gui_log(gui))} :
         Commit(w, st, NoSession)

\* get_user_session returned no session (lines 624-627)
CycleIdle(w) ==
    /\ pc[w] = "poll" /\ gui # "exited"
    /\ \E term_ok \in TermOutcomes :
       \E sm \in {stop_mpv(current_process, alive, term_ok, gui_log(gui))},
          f \in {Frame(w, "idle", NoSession)} :
       \E st \in {IF sm.raised THEN Escape(f)
                  ELSE [f EXCEPT !.proc = sm.proc, !.live = sm.live,
                                 !.last = NoGuid, !.pc = "sleep"]} :
         Commit(w, st, NoSession)

\* the metadata the loop finds in the cache (lines 570-574)
CachedMeta(guid, tk, cache) ==
    IF guid # NoGuid /\ GuidKey(guid) \in DOMAIN cache
    THEN cache[GuidKey(guid)].meta
    ELSE IF tk \in DOMAIN cache THEN cache[tk].meta
    ELSE NoMeta

\* the title entry updated with a fetched record (lines 585-588)
WithMeta(cache, tk, meta) ==
    Put(cache, tk, IF tk \in DOMAIN cache THEN [cache[tk] EXCEPT !.meta = meta]
                   ELSE [path |-> NoPath, meta |-> meta])

\* if cached_meta (line 576)
HasCachedMeta(guid, title, cache) ==
    CachedMeta(guid, TitleKey(clean_title(title)), cache) # NoMeta

\* get_user_session returned a session (lines 559-578): the cycle logs it,
\* reads the cached metadata and either shows it and goes on to line 594 or
\* calls the provider
CycleHead(w) ==
    /\ pc[w] = "poll" /\ gui # "exited"
    /\ \E s \in Sessions, is_paused \in BOOLEAN, view_offset \in ViewOffsets,
          term_ok \in TermOutcomes :
       \E sess \in {SessionLocals(s, is_paused, view_offset)} :
       \E f \in {Frame(w, "head", sess)} :
       \E st \in {IF ~gui_log(gui) THEN Escape(f)
                  ELSE IF HasCachedMeta(sess.guid, sess.title, matches_cache)
                  THEN Drift(f, sess, fs, term_ok, gui_log(gui))
                  ELSE [f EXCEPT !.pc = "meta"]} :
         Commit(w, st, sess)

\* lines 583-589 once get_anilist_metadata has returned: a record is shown
\* in the panel and stored under the title key; an exception of the panel
\* (the window is gone) skips the store (line 590)
LoopMeta(title, cache, file, resp, panel_ok) ==
    Only({ IF al.meta = NoMeta \/ ~panel_ok
           THEN [cache |-> cache, file |-> file, stored |-> {}]
           ELSE Only({ [cache |-> cache1, file |-> save_cache(cache1, file),
                        stored |-> {TitleKey(clean_title(title))}] :
                       cache1 \in {WithMeta(cache, TitleKey(clean_title(title)),
                                            al.meta)} }) :
           al \in {get_anilist_metadata(title, resp)} })

\* get_anilist_metadata of line 582 has returned: lines 583-591, then line 594
CycleMeta(w) ==
    /\ pc[w] = "meta" /\ gui # "exited"
    /\ \E sess \in {snap[w][1]} :
       \E resp \in {e.resp : e \in LoopEnvs(sess.title)},
          term_ok \in TermOutcomes :
       \E m \in {LoopMeta(sess.title, matches_cache, cache_file, resp,
                          gui_log(gui))} :
       \E f \in {[Frame(w, "meta", sess) EXCEPT !.cache = m.cache,
                                                !.file = m.file,
                                                !.obs.meta_calls = 1,
                                                !.obs.stored = m.stored]} :
       \E st \in {Drift(f, sess, fs, term_ok, gui_log(gui))} :
         Commit(w, st, sess)

\* get_mpv_playback_time of line 596 has returned or raised: lines 597-602
\* (the seek and both outcomes of a failed query are logged), then line 604
CycleDrift(w) ==
    /\ pc[w] = "query" /\ gui # "exited"
    /\ \E sess \in {snap[w][1]} :
       \E reply \in Replies, term_ok \in TermOutcomes :
       \E seeks \in {DriftCommands(sess.view_offset, reply)} :
       \E f \in {[Frame(w, "drift", sess) EXCEPT !.obs.query = <<reply>>,
                                                 !.obs.sent = seeks]} :
       \E st \in {IF (seeks # <<>> \/ get_mpv_playback_time(reply) = <<>>)
                     /\ ~gui_log(gui)
                  THEN Escape(f)
                  ELSE Decide(f, sess, fs, term_ok, gui_log(gui))} :
         Commit(w, st, sess)

\* the provider calls of find_series_folder have returned: the scan of the
\* roots and the cache writes (lines 416-446), then the rest of
\* find_local_episode
CycleScan(w) ==
    /\ pc[w] = "lookup" /\ gui # "exited"
    /\ \E sess \in {snap[w][1]} :
       \E env \in LoopEnvs(sess.title) :
       \E f \in {[Frame(w, "scan", sess) EXCEPT !.obs.meta_calls = 1]} :
       \E st \in {IF ~gui_log(gui) THEN Escape(f)
                  ELSE Only({ AfterFolder([f EXCEPT !.cache = r.cache,
                                                    !.file = r.file,
                                                    !.obs.scanned = TRUE,
                                                    !.obs.via = r.via],
                                          sess, r.path, gui_log(gui)) :
                              r \in {ScanAndStore(sess.title, sess.guid,
                                                  TitleKey(clean_title(sess.title)),
                                                  matches_cache, cache_file,
                                                  fs, env, {})} })} :
         Commit(w, st, sess)

\* Popen of play_with_mpv has returned or raised (lines 480-496): a started
\* player is assigned to current_process whatever has become of the window;
\* a failure is logged (line 496), which raises when the window is gone;
\* then last_played_guid = guid (line 609)
CycleLaunch(w) ==
    /\ pc[w] = "popen" /\ gui # "exited"
    /\ \E sess \in {snap[w][1]} :
       \E popen_ok \in PopenOutcomes :
       \E pl \in {play_with_mpv(current_process, alive, popen_ok)},
          f \in {Frame(w, "launch", sess)} :
       \E st \in {IF ~pl.started /\ ~gui_log(gui)
                  THEN Escape([f EXCEPT !.obs.launch = "fail"])
                  ELSE [f EXCEPT !.proc = pl.proc, !.live = pl.live,
                                 !.last = sess.guid, !.pc = "launched",
                                 !.obs.launch = IF pl.started THEN "ok"
                                                ELSE "fail"]} :
         Commit(w, st, sess)

\* after a launch: the pause/resume handling of lines 613-622
CyclePause(w) ==
    /\ pc[w] = "launched" /\ gui # "exited"
    /\ \E sess \in {snap[w][1]} :
       \E st \in {Mirror(Frame(w, "pause", sess), sess, gui_log(gui))} :
         Commit(w, st, sess)

\* time.sleep(POLL_INTERVAL) returns
Sleep(w) ==
    /\ pc[w] = "sleep" /\ gui # "exited"
    /\ pc' = [pc EXCEPT ![w] = "check"]
    /\ obs' = NoObs
    /\ UNCHANGED <<sync_running, last_played_guid, current_process, alive,
                   matches_cache, cache_file, fs, disk_ok, gui, was_paused, snap>>

\* while sync_running: the flag is read false and sync_loop returns
LoopReturn(w) ==
    /\ pc[w] = "check" /\ ~sync_running /\ gui # "exited"
    /\ pc' = [pc EXCEPT ![w] = "done"]
    /\ obs' = NoObs
    /\ UNCHANGED <<sync_running, last_played_guid, current_process, alive,
                   matches_cache, cache_file, fs, disk_ok, gui, was_paused, snap>>

(***************************************************************************)
(* Controls of the main thread                                             *)
(***************************************************************************)
FreeSlots == {w \in Workers : pc[w] \in {"unborn", "done"}}

start_sync ==
    /\ gui = "mainloop" /\ ~sync_running /\ FreeSlots # {}
    /\ sync_running' = TRUE
    /\ LET w == CHOOSE x \in FreeSlots : \A y \in FreeSlots : x <= y
       IN  /\ pc' = [pc EXCEPT ![w] = "check"]
           /\ was_paused' = [was_paused EXCEPT ![w] = FALSE]
           /\ obs' = NoObs
    /\ UNCHANGED <<last_played_guid, current_process, alive, matches_cache,
                   cache_file, fs, disk_ok, gui, snap>>

stop_sync ==
    /\ gui = "mainloop"
    /\ sync_running' = FALSE
    /\ \E term_ok \in TermOutcomes :
       \E st \in {stop_mpv(current_process, alive, term_ok, gui_log(gui))} :
         /\ current_process' = st.proc
         /\ alive' = st.live
    /\ obs' = NoObs
    /\ UNCHANGED <<last_played_guid, matches_cache, cache_file, fs, disk_ok,
                   gui, pc, was_paused, snap>>

on_close ==
    /\ gui = "mainloop"
    /\ sync_running' = FALSE
    /\ \E term_ok \in TermOutcomes :
       \E st \in {stop_mpv(current_process, alive, term_ok, gui_log(gui))} :
         /\ current_process' = st.proc
         /\ alive' = st.live
    /\ gui' = "closed"
    /\ obs' = NoObs
    /\ UNCHANGED <<last_played_guid, matches_cache, cache_file, fs, disk_ok,
                   pc, was_paused, snap>>

\* after app.mainloop() returns: the last stop_mpv (lines 667-669), whose
\* exception is caught and printed; then the interpreter exits and its
\* daemon threads end with it
AppExit ==
    /\ gui = "closed"
    /\ \E term_ok \in TermOutcomes :
       \E st \in {stop_mpv(current_process, alive, term_ok, gui_log(gui))} :
         /\ current_process' = st.proc
         /\ alive' = st.live
    /\ gui' = "exited"
    /\ obs' = NoObs
    /\ UNCHANGED <<sync_running, last_played_guid, matches_cache, cache_file,
                   fs, disk_ok, pc, was_paused, snap>>

(***************************************************************************)
(* Environment                                                             *)
(***************************************************************************)
\* a player process ends by itself
ProcExit ==
    /\ \E p \in alive : alive' = alive \ {p}
    /\ obs' = NoObs
    /\ UNCHANGED <<sync_running, last_played_guid, current_process,
                   matches_cache, cache_file, fs, disk_ok, gui, pc, was_paused, snap>>

\* a library folder is deleted or restored
FolderChange ==
    /\ \E path \in LoopVolatile :
         fs' = IF path \in fs THEN fs \ {path} ELSE fs \cup {path}
    /\ obs' = NoObs
    /\ UNCHANGED <<sync_running, last_played_guid, current_process, alive,
                   matches_cache, cache_file, disk_ok, gui, pc, was_paused, snap>>

EmptyCache == [k \in {} |-> [path |-> NoPath, meta |-> NoMeta]]

\* the state when app.mainloop() starts: start_sync() has run (line 665)
Init ==
    /\ sync_running = TRUE
    /\ last_played_guid = NoGuid
    /\ current_process = NoProc
    /\ alive = {}
    /\ cache_file = EmptyCache
    /\ matches_cache = load_cache(cache_file)
    /\ fs = AllPaths
    /\ disk_ok = TRUE
    /\ gui = "mainloop"
    /\ pc = [w \in Workers |-> IF w = 1 THEN "check" ELSE "unborn"]
    /\ was_paused = [w \in Workers |-> FALSE]
    /\ snap = [w \in Workers |-> NoSnap]
    /\ obs = NoObs

\* the program with its loop threads, its main thread and its player
\* processes; the library folders stay as they are while it runs
Next ==
    \/ \E w \in Workers : LoopCheck(w)
    \/ \E w \in Workers : CycleError(w)
    \/ \E w \in Workers : CycleIdle(w)
    \/ \E w \in Workers : CycleHead(w)
    \/ \E w \in Workers : CycleMeta(w)
    \/ \E w \in Workers : CycleDrift(w)
    \/ \E w \in Workers : CycleScan(w)
    \/ \E w \in Workers : CycleLaunch(w)
    \/ \E w \in Workers : CyclePause(w)
    \/ \E w \in Workers : Sleep(w)
    \/ \E w \in Workers : LoopReturn(w)
    \/ start_sync
    \/ stop_sync
    \/ on_close
    \/ AppExit
    \/ ProcExit

Spec == Init /\ [][Next]_vars

\* the steps of one thread of sync_loop
LoopThread(w) ==
    \/ LoopCheck(w)
    \/ CycleError(w)
    \/ CycleIdle(w)
    \/ CycleHead(w)
    \/ CycleMeta(w)
    \/ CycleDrift(w)
    \/ CycleScan(w)
    \/ CycleLaunch(w)
    \/ CyclePause(w)
    \/ Sleep(w)
    \/ LoopReturn(w)

\* the program while the Start button is left alone: the thread of
\* sync_loop started at line 665 is the only one
NextLive ==
    \/ LoopThread(1)
    \/ stop_sync
    \/ on_close
    \/ AppExit
    \/ ProcExit

\* the thread keeps running: it is scheduled again and again and
\* time.sleep returns
SpecLive == Init /\ [][NextLive]_vars /\ WF_vars(LoopThread(1))

(***************************************************************************)
(* The matcher and the cache on their own: find_series_folder is called    *)
(* with any title, identifier and provider outcome while a folder comes    *)
(* and goes and the cache file turns unwritable and writable again.        *)
(***************************************************************************)
TitleAbYear == <<"a","b"," ","(","1",")">>
TitleZ == <<"Z">>

MatchTitles == {TitleAb, TitleAbYear, TitleZ}
MatchGuids == {NoGuid, G1}

\* provider outcomes and unreadable roots of one call
MatchEnvs ==
    { [resp |-> r, tv |-> TvFail, unreadable |-> u] :
        r \in {RespFail, RespOk(MediaAb)}, u \in {{}, {"r1"}} }

\* the locals of a call of find_series_folder that waits for the provider
CallLocals(title, plex_guid, evicted) ==
    [title |-> title, guid |-> plex_guid, evicted |-> evicted]

\* a call of find_series_folder starts: steps 1 and 2 (lines 381-405).  On a
\* hit it returns; else it calls the provider (line 408) and waits
Resolve ==
    /\ snap[1] = NoSnap
    /\ \E title \in MatchTitles, plex_guid \in MatchGuids :
       \E l \in {CacheLookups(title, plex_guid, matches_cache, cache_file, fs)} :
         /\ matches_cache' = l.cache
         /\ cache_file' = l.file
         /\ snap' = [snap EXCEPT ![1] =
                       IF l.hit THEN NoSnap
                       ELSE <<CallLocals(title, plex_guid, l.evicted)>>]
         /\ obs' = [step |-> IF l.hit THEN "resolve" ELSE "lookup",
                    title |-> title, guid |-> plex_guid,
                    path |-> l.path, via |-> l.via,
                    meta_calls |-> 0, scanned |-> FALSE,
                    evicted |-> l.evicted]
    /\ UNCHANGED <<sync_running, last_played_guid, current_process, alive, fs,
                   disk_ok, gui, pc, was_paused>>

\* the provider calls of the call in progress have returned: the scan of
\* the roots as they are now, the cache writes, and the return
\* (lines 408-446)
ResolveScan ==
    /\ snap[1] # NoSnap
    /\ \E call \in {snap[1][1]}, env \in MatchEnvs :
       \E r \in {ScanAndStore(call.title, call.guid,
                              TitleKey(clean_title(call.title)),
                              matches_cache, cache_file, fs, env, call.evicted)} :
         /\ matches_cache' = r.cache
         /\ cache_file' = r.file
         /\ obs' = [step |-> "resolve", title |-> call.title, guid |-> call.guid,
                    path |-> r.path, via |-> r.via,
                    meta_calls |-> r.meta_calls, scanned |-> r.scanned,
                    evicted |-> r.evicted]
    /\ snap' = [snap EXCEPT ![1] = NoSnap]
    /\ UNCHANGED <<sync_running, last_played_guid, current_process, alive, fs,
                   disk_ok, gui, pc, was_paused>>

\* matches.json becomes unwritable, or writable again
DiskChange ==
    /\ disk_ok' = ~disk_ok
    /\ obs' = NoObs
    /\ UNCHANGED <<sync_running, last_played_guid, current_process, alive,
                   matches_cache, cache_file, fs, gui, pc, was_paused, snap>>

NextMatch ==
    \/ Resolve
    \/ ResolveScan
    \/ FolderChange
    \/ DiskChange

SpecMatch == Init /\ [][NextMatch]_vars

(***************************************************************************)
(* The metadata resolver on its own: get_anilist_metadata applied to a     *)
(* title and a provider outcome.                                           *)
(***************************************************************************)
MetaTitles == {TitleAb, TitleAbYear, <<>>}

\* a JSON field that should hold a string
FieldValues == {Null, Str(<<"C","d">>), Bad}

SynonymValues ==
    { <<>>, <<Str(<<"e">>)>>, <<Bad>>, <<Str(<<"e">>), Bad>>, <<Null, Str(<<"e">>)>> }

MediaValues ==
    [id : {7}, romaji : FieldValues, english : FieldValues, native : {Null},
     synonyms : SynonymValues,
     description : {Null, Str(<<"<","i",">","x">>), Bad}, cover : {Null, Bad}]

\* transport error or timeout, non-200 status, body that is not the
\* expected JSON, empty result, and a result with a Media object
MetaResps ==
    { RespFail,
      [sent |-> TRUE, status |-> 500, json_ok |-> TRUE, media |-> <<>>],
      [sent |-> TRUE, status |-> 200, json_ok |-> FALSE, media |-> <<>>],
      [sent |-> TRUE, status |-> 200, json_ok |-> TRUE, media |-> <<>>] }
      \cup {RespOk(m) : m \in MediaValues}

InitMeta ==
    /\ sync_running = TRUE
    /\ last_played_guid = NoGuid
    /\ current_process = NoProc
    /\ alive = {}
    /\ cache_file = EmptyCache
    /\ matches_cache = load_cache(cache_file)
    /\ fs = AllPaths
    /\ disk_ok = TRUE
    /\ gui = "mainloop"
    /\ pc = [w \in Workers |-> "unborn"]
    /\ was_paused = [w \in Workers |-> FALSE]
    /\ snap = [w \in Workers |-> NoSnap]
    /\ obs \in {[step |-> "ask", title |-> t, resp |-> r, names |-> {},
                 meta |-> NoMeta] : t \in MetaTitles, r \in MetaResps}

\* one call of get_anilist_metadata
Fetch ==
    /\ obs.step = "ask"
    /\ \E got \in {get_anilist_metadata(obs.title, obs.resp)} :
         obs' = [obs EXCEPT !.step = "fetch", !.names = got.names,
                            !.meta = got.meta]
    /\ UNCHANGED <<sync_running, last_played_guid, current_process, alive,
                   matches_cache, cache_file, fs, disk_ok, gui, pc, was_paused,
                   snap>>

NextMeta == Fetch

SpecMeta == InitMeta /\ [][NextMeta]_vars

(***************************************************************************)
(* The folder scan on its own: one call of find_series_folder with an     *)
(* empty cache, for any title, any provider outcome, any set of library   *)
(* folders present and any set of roots that cannot be listed.            *)
(***************************************************************************)
TitleAbc == <<"a","b","c">>
TitleC == <<"C">>

ScanTitles == {TitleAb, TitleAbc, TitleC, TitleZ}

ScanEnvs ==
    { [resp |-> r, tv |-> TvFail, unreadable |-> u] :
        r \in {RespFail, RespOk(MediaAb)}, u \in SUBSET Range(ANIME_FOLDERS) }

InitScan ==
    /\ sync_running = TRUE
    /\ last_played_guid = NoGuid
    /\ current_process = NoProc
    /\ alive = {}
    /\ cache_file = EmptyCache
    /\ matches_cache = load_cache(cache_file)
    /\ fs \in SUBSET AllPaths
    /\ disk_ok = TRUE
    /\ gui = "mainloop"
    /\ pc = [w \in Workers |-> "unborn"]
    /\ was_paused = [w \in Workers |-> FALSE]
    /\ snap = [w \in Workers |-> NoSnap]
    /\ obs \in {[step |-> "ask", title |-> t, guid |-> g, env |-> e,
                 path |-> NoPath, via |-> "none"] :
                t \in ScanTitles, g \in MatchGuids, e \in ScanEnvs}

\* the call of find_series_folder
Search ==
    /\ obs.step = "ask"
    /\ \E r \in {find_series_folder(obs.title, obs.guid, matches_cache,
                                    cache_file, fs, obs.env)} :
         /\ matches_cache' = r.cache
         /\ cache_file' = r.file
         /\ obs' = [obs EXCEPT !.step = "search", !.path = r.path,
                               !.via = r.via]
    /\ UNCHANGED <<sync_running, last_played_guid, current_process, alive, fs,
                   disk_ok, gui, pc, was_paused, snap>>

NextScan == Search

SpecScan == InitScan /\ [][NextScan]_vars

(***************************************************************************)
(* The string helpers on their own: clean_title applied to a title and to *)
(* its own result, folder_name_matches applied to a pair of normalized    *)
(* names in both orders.                                                  *)
(***************************************************************************)
MaxTitleLen == 4
MaxNameLen == 3

\* the strings of at most n characters from chars
StringsUpTo(chars, n) == UNION {[1..k -> chars] : k \in 0..n}

\* letters of both cases, a digit, white space, punctuation, the brackets
TitleChars == {"a", "B", "1", " ", "-", "(", "["}

\* characters of normalized names
NameChars == {"a", "b", "1"}

InitText ==
    /\ sync_running = TRUE
    /\ last_played_guid = NoGuid
    /\ current_process = NoProc
    /\ alive = {}
    /\ cache_file = EmptyCache
    /\ matches_cache = load_cache(cache_file)
    /\ fs = AllPaths
    /\ disk_ok = TRUE
    /\ gui = "mainloop"
    /\ pc = [w \in Workers |-> "unborn"]
    /\ was_paused = [w \in Workers |-> FALSE]
    /\ snap = [w \in Workers |-> NoSnap]
    /\ obs \in {[step |-> "title", x |-> x, a |-> <<>>, b |-> <<>>,
                 out |-> <<>>, again |-> <<>>, ab |-> FALSE, ba |-> FALSE] :
                x \in StringsUpTo(TitleChars, MaxTitleLen)}
          \cup {[step |-> "pair", x |-> <<>>, a |-> a, b |-> b,
                 out |-> <<>>, again |-> <<>>, ab |-> FALSE, ba |-> FALSE] :
                a, b \in StringsUpTo(NameChars, MaxNameLen)}

\* clean_title on a title, then on the result
Clean ==
    /\ obs.step = "title"
    /\ \E out \in {clean_title(obs.x)} :
         obs' = [obs EXCEPT !.step = "cleaned", !.out = out,
                            !.again = clean_title(out)]
    /\ UNCHANGED <<sync_running, last_played_guid, current_process, alive,
                   matches_cache, cache_file, fs, disk_ok, gui, pc, was_paused,
                   snap>>

\* folder_name_matches on a pair of names, in both orders
Compare ==
    /\ obs.step = "pair"
    /\ obs' = [obs EXCEPT !.step = "compared",
                          !.ab = folder_name_matches(obs.a, obs.b),
                          !.ba = folder_name_matches(obs.b, obs.a)]
    /\ UNCHANGED <<sync_running, last_played_guid, current_process, alive,
                   matches_cache, cache_file, fs, disk_ok, gui, pc, was_paused,
                   snap>>

NextText ==
    \/ Clean
    \/ Compare

SpecText == InitText /\ [][NextText]_vars

(***************************************************************************)
(* The episode finder on its own: one call of find_local_episode with an  *)
(* empty cache, for any title, season and episode number.                 *)
(***************************************************************************)
\* season_num and episode_num of a call: sync_loop passes parentIndex or 1
\* and index or 1 (lines 562-563, 606), so a call never gets 0 or None
SeasonNums == {1, 2}
EpisodeNums == {1, 3}

EpisodeTitles == {TitleAb, TitleAbc, TitleZ}

InitEpisode ==
    /\ sync_running = TRUE
    /\ last_played_guid = NoGuid
    /\ current_process = NoProc
    /\ alive = {}
    /\ cache_file = EmptyCache
    /\ matches_cache = load_cache(cache_file)
    /\ fs \in {AllPaths, AllPaths \ LoopVolatile}
    /\ disk_ok = TRUE
    /\ gui = "mainloop"
    /\ pc = [w \in Workers |-> "unborn"]
    /\ was_paused = [w \in Workers |-> FALSE]
    /\ snap = [w \in Workers |-> NoSnap]
    /\ obs \in {[step |-> "ask", title |-> t, guid |-> g, season |-> s,
                 episode |-> e, env |-> env, folder |-> NoPath,
                 file |-> NoFile] :
                t \in EpisodeTitles, g \in MatchGuids, s \in SeasonNums,
                e \in EpisodeNums, env \in MatchEnvs}

\* the call of find_local_episode
FindEpisode ==
    /\ obs.step = "ask"
    /\ \E r \in {find_local_episode(obs.title, obs.season, obs.episode,
                                    obs.guid, matches_cache, cache_file, fs,
                                    obs.env)},
          sf \in {find_series_folder(obs.title, obs.guid, matches_cache,
                                     cache_file, fs, obs.env)} :
         /\ matches_cache' = r.cache
         /\ cache_file' = r.file
         /\ obs' = [obs EXCEPT !.step = "found", !.folder = sf.path,
                               !.file = r.path]
    /\ UNCHANGED <<sync_running, last_played_guid, current_process, alive, fs,
                   disk_ok, gui, pc, was_paused, snap>>

NextEpisode == FindEpisode

SpecEpisode == InitEpisode /\ [][NextEpisode]_vars

(***************************************************************************)
(* Properties of the synchronisation loop (Spec)                           *)
(***************************************************************************)
\* the pause/resume commands among the commands a step sent
PauseSent(sent) == SelectSeq(sent, LAMBDA c : c.cmd = "pause")

\* the seek commands among the commands a step sent
SeekSent(sent) == SelectSeq(sent, LAMBDA c : c.cmd = "seek")

\* thread w of sync_loop took the step
StepOf(w) == pc[w] \notin {"unborn", "done"} /\ pc'[w] # pc[w]

\* thread w took a step in which line 604 found the session of the live
\* player and kept the player
KeepCycle(w) == StepOf(w) /\ obs'.decision = "keep"

\* C1: in every cycle that keeps the live player, a pause/resume command is
\* sent if and only if the session's pause flag differs from was_paused; it
\* is the one command of that edge (pause true for unpaused->paused, pause
\* false for paused->unpaused), a cycle whose flag equals was_paused sends
\* no pause/resume command, and the thread goes on to the sleep with
\* was_paused equal to the session's flag.
C1_PauseMirroring ==
    [][\A w \in Workers : KeepCycle(w) =>
         /\ PauseSent(obs'.sent) =
              IF obs'.is_paused # was_paused[w]
              THEN << [cmd |-> "pause", arg |-> IF obs'.is_paused THEN 1 ELSE 0] >>
              ELSE <<>>
         /\ pc'[w] = "sleep" => was_paused'[w] = obs'.is_paused]_vars

\* a cycle that kept the player and sent the pause command of an edge
C1_Witness ==
    /\ obs.decision = "keep" /\ obs.is_paused
    /\ PauseSent(obs.sent) = << [cmd |-> "pause", arg |-> 1] >>
    /\ \E w \in Workers : pc[w] = "sleep" /\ was_paused[w]

\* the position query of thread w has returned (lines 596-602)
DriftCycle(w) == StepOf(w) /\ pc[w] = "query"

\* C2: a cycle queries the position only when the player is alive and the
\* session is not paused; when the query returns a value, one absolute seek
\* to the session's position is sent if and only if the two positions
\* differ by strictly more than 5 seconds (a difference of exactly 5 sends
\* none); no other step of a cycle sends a seek, so a cycle whose session
\* is paused or that finds no live player sends none.
C2_DriftThreshold ==
    [][\A w \in Workers : StepOf(w) =>
         /\ ( /\ DriftCycle(w)
              /\ obs'.query[1].ok
              /\ obs'.query[1].data # <<>> )
            => SeekSent(obs'.sent) =
                 IF Abs(obs'.query[1].data[1] - obs'.view_offset) > 5000
                 THEN << [cmd |-> "seek", arg |-> obs'.view_offset \div 1000] >>
                 ELSE <<>>
         /\ ~DriftCycle(w) => SeekSent(obs'.sent) = <<>>
         /\ pc'[w] = "query"
            => (is_mpv_running(current_process, alive) /\ ~obs'.is_paused)]_vars

\* a cycle whose player was exactly 5 seconds behind the session: no seek
C2_Witness ==
    /\ obs.step = "drift" /\ ~obs.is_paused
    /\ obs.view_offset = 100000
    /\ obs.query = << [ok |-> TRUE, data |-> <<95000>>] >>
    /\ SeekSent(obs.sent) = <<>>

\* C3: a thread of sync_loop only moves from the head of a cycle into the
\* cycle when sync_running is set, through the cycle to the sleep and from
\* the sleep to the head of the next cycle, whatever failed in the cycle;
\* it leaves sync_loop only from the head of a cycle at which sync_running
\* is false.
C3_LoopNeverLeaves ==
    [][\A w \in Workers : StepOf(w) =>
         /\ (pc[w] = "check" /\ sync_running) => pc'[w] = "poll"
         /\ (pc[w] = "check" /\ ~sync_running) => pc'[w] = "done"
         /\ pc[w] \in {"poll"} \cup Waits => pc'[w] \in Waits \cup {"sleep"}
         /\ pc[w] = "sleep" => pc'[w] = "check"
         /\ pc'[w] = "done" => (pc[w] = "check" /\ ~sync_running)]_vars

\* a thread of sync_loop has ended inside a cycle: an exception left the
\* handler of line 628
C3_EscapedCycle ==
    /\ obs.escaped
    /\ \E w \in Workers : pc[w] = "done"

\* C4: at most one player process is alive, and a live player process is the
\* one current_process refers to.
C4_AtMostOnePlayer ==
    /\ Cardinality(alive) <= 1
    /\ alive \subseteq {current_process}

\* two player processes are alive at once
C4_TwoPlayers == Cardinality(alive) = 2

\* C5: after the body of a cycle without a session no player process is
\* alive and last_played_guid is None.
C5_IdleCycle ==
    obs.step = "idle" => (alive = {} /\ last_played_guid = NoGuid)

\* C6: last_played_guid takes a session's identifier only in a cycle that
\* found the episode file and whose launch succeeded, and is left unchanged
\* by a cycle whose file is not found or whose launch fails.
C6_RememberOnLaunch ==
    [][ /\ (last_played_guid' # last_played_guid /\ last_played_guid' # NoGuid)
           => (obs'.step = "launch" /\ obs'.launch = "ok")
        /\ obs'.launch \in {"nofile", "fail"}
           => last_played_guid' = last_played_guid ]_vars

\* a launch failed and the session's identifier was remembered all the same
C6_RememberedFailedLaunch ==
    /\ obs.step = "launch" /\ obs.launch = "fail"
    /\ last_played_guid = obs.guid
    /\ ~is_mpv_running(current_process, alive)

\* the identifier the cycle of a step handles is resolved: cached under its
\* key with a folder that exists
Resolved(guid) ==
    /\ guid # NoGuid
    /\ GuidKey(guid) \in DOMAIN matches_cache
    /\ PathExists(matches_cache[GuidKey(guid)].path, fs)

\* C9: a cycle that handles a resolved identifier makes no call
\* to the metadata provider (it enters neither the call of line 582 nor
\* that of find_series_folder) and no scan of the library roots.
C9_NoLookupOnceResolved ==
    [][\A w \in Workers : (StepOf(w) /\ Resolved(obs'.guid))
         => /\ pc'[w] \notin {"meta", "lookup"}
            /\ pc[w] # "lookup" => ~obs'.scanned]_vars

\* a cycle that handles a resolved identifier entered the provider call of
\* line 582 although a metadata record is cached under the title key
C9_PolledWithRecordCached ==
    /\ obs.step = "head" /\ Resolved(obs.guid)
    /\ \E w \in Workers : pc[w] = "meta" /\ snap[w] # NoSnap
                          /\ snap[w][1].guid = obs.guid
    /\ \E tk \in {TitleKey(clean_title(TitleAb))} :
         /\ obs.guid = G1
         /\ tk \in DOMAIN matches_cache
         /\ matches_cache[tk].meta # NoMeta

(***************************************************************************)
(* Properties of the matcher and the cache (SpecMatch)                     *)
(***************************************************************************)
\* the keys a call of find_series_folder looks up: the identifier's key
\* when there is an identifier, the title's key unless that was a hit
Looked(title, guid, cache, fsNow) ==
    (IF guid # NoGuid THEN {GuidKey(guid)} ELSE {})
      \cup (IF /\ guid # NoGuid
               /\ GuidKey(guid) \in DOMAIN cache
               /\ cache[GuidKey(guid)].path \in fsNow
            THEN {}
            ELSE {TitleKey(clean_title(title))})

\* the cache holds key with a path that does not exist
Stale(key, cache, fsNow) == key \in DOMAIN cache /\ cache[key].path \notin fsNow

\* the step is steps 1 and 2 of a call of find_series_folder (the action
\* Resolve): a hit that returns, or a miss that goes on to the provider
LookupStep ==
    /\ snap[1] = NoSnap
    /\ obs'.step \in {"resolve", "lookup"}

\* C7 (as stated): the lookups of a call (steps 1 and 2) return a path
\* only when it exists; an entry under a looked-up key whose path does not
\* exist is gone from matches_cache and from the cache file after them.
C7_EvictedEverywhere ==
    [][LookupStep =>
         /\ obs'.path # NoPath => obs'.path \in fs
         /\ \A k \in Looked(obs'.title, obs'.guid, matches_cache, fs) :
              Stale(k, matches_cache, fs)
                => (~Stale(k, matches_cache', fs) /\ ~Stale(k, cache_file', fs))]_vars

\* C7 (amended): the lookups of a call (steps 1 and 2) return a path only
\* when it exists; an entry under a looked-up key whose path does not exist
\* is gone from matches_cache after them, and from the cache file when the
\* file can be written.
C7_EvictedInMemory ==
    [][LookupStep =>
         /\ obs'.path # NoPath => obs'.path \in fs
         /\ \A k \in Looked(obs'.title, obs'.guid, matches_cache, fs) :
              Stale(k, matches_cache, fs)
                => /\ ~Stale(k, matches_cache', fs)
                   /\ disk_ok => ~Stale(k, cache_file', fs)]_vars

\* the lookups of a call popped the entry of a deleted folder, missed, and
\* the call went on to the provider
C7_Witness ==
    /\ obs.step = "lookup" /\ obs.evicted # {} /\ obs.path = NoPath
    /\ snap[1] # NoSnap
    /\ disk_ok
    /\ \A k \in obs.evicted : k \notin DOMAIN matches_cache
                              /\ k \notin DOMAIN cache_file

\* both keys of a call hold the same entry, with the returned path
BothKeys(title, guid, path, cache) ==
    /\ GuidKey(guid) \in DOMAIN cache
    /\ TitleKey(clean_title(title)) \in DOMAIN cache
    /\ cache[GuidKey(guid)] = cache[TitleKey(clean_title(title))]
    /\ cache[GuidKey(guid)].path = path

\* C8 (as stated): after a call with an identifier that returns a path,
\* the cache holds the identifier's key and the title's key with the same
\* path and metadata.
C8_BothKeysAlways ==
    (obs.step = "resolve" /\ obs.path # NoPath /\ obs.guid # NoGuid)
      => BothKeys(obs.title, obs.guid, obs.path, matches_cache)

\* C8 (amended): after a call with an identifier whose path was found by
\* the scan of the roots, the cache holds the identifier's key and the
\* title's key with the same path and metadata.
C8_BothKeysAfterScan ==
    (obs.step = "resolve" /\ obs.path # NoPath /\ obs.guid # NoGuid
       /\ obs.via = "scan")
      => BothKeys(obs.title, obs.guid, obs.path, matches_cache)

\* a scan with an identifier stored a folder together with a record
C8_Witness ==
    /\ obs.step = "resolve" /\ obs.via = "scan" /\ obs.guid # NoGuid
    /\ BothKeys(obs.title, obs.guid, obs.path, matches_cache)
    /\ matches_cache[GuidKey(obs.guid)].meta # NoMeta

(***************************************************************************)
(* Properties of the metadata resolver (SpecMeta)                          *)
(***************************************************************************)
\* the provider answered 200 with a Media object whose fields are strings
\* or null
ProviderSucceeded(resp) ==
    /\ resp.sent /\ resp.status = 200 /\ resp.json_ok /\ resp.media # <<>>
    /\ \A i \in 1..Len(NameValues(resp.media[1])) :
         NameValues(resp.media[1])[i].t # "bad"
    /\ resp.media[1].description.t # "bad"
    /\ resp.media[1].cover.t # "bad"

\* C10: the names returned by get_anilist_metadata contain the normalized
\* title, and when the provider did not succeed they are exactly the
\* normalized title and the record is None.
C10_Fallback ==
    obs.step = "fetch" =>
      /\ clean_title(obs.title) \in obs.names
      /\ ~ProviderSucceeded(obs.resp)
         => (obs.names = {clean_title(obs.title)} /\ obs.meta = NoMeta)

(***************************************************************************)
(* Threads and the player handle (Spec)                                    *)
(***************************************************************************)
\* the step is taken by a thread of sync_loop
LoopStep == \E w \in Workers : StepOf(w)

\* C11: the player handle is terminated and replaced only by steps of the
\* loop thread, and a stop from the window (stop button, close) clears
\* sync_running and leaves the handle and the player process alone.
C11_PlayerConfined ==
    [][ /\ current_process' # current_process => LoopStep
        /\ (sync_running /\ ~sync_running')
             => UNCHANGED <<current_process, alive>> ]_vars

\* C12: the channel operations of a cycle (position query, seek, pause and
\* resume) leave current_process, the player processes, last_played_guid
\* and the cache as they are: a step that ends in the pause handling of a
\* kept or launched player changes none of them (the cache only by the
\* metadata fetched in that step), and a step that queried the position
\* changes the handle only by the stop of the relaunch decision and the
\* cache only by the evictions of the folder lookup.  A cycle whose
\* position query failed sends no seek, takes the relaunch decision (it
\* goes on to the launch exactly when the identifier differs from
\* last_played_guid or the player has exited) and, when it keeps the
\* player, does the pause handling.
C12_ChannelFrame ==
    [][\A w \in Workers : StepOf(w) =>
         /\ (obs'.decision = "keep" \/ pc[w] = "launched") =>
              /\ UNCHANGED <<current_process, alive, last_played_guid>>
              /\ obs'.step # "meta" => UNCHANGED <<matches_cache, cache_file>>
         /\ DriftCycle(w) =>
              /\ UNCHANGED last_played_guid
              /\ current_process' \in {current_process, NoProc}
              /\ alive' \in {alive, alive \ {current_process}}
              /\ <<current_process', alive'>> # <<current_process, alive>>
                 => obs'.decision = "launch"
              /\ matches_cache' =
                   [k \in (DOMAIN matches_cache) \ obs'.evicted |-> matches_cache[k]]
         /\ (DriftCycle(w) /\ ~obs'.query[1].ok) =>
              /\ SeekSent(obs'.sent) = <<>>
              /\ obs'.decision =
                   IF NeedsLaunch(obs'.guid, last_played_guid,
                                  is_mpv_running(current_process, alive))
                   THEN "launch" ELSE "keep"
              /\ obs'.decision = "keep" =>
                   /\ pc'[w] = "sleep"
                   /\ was_paused'[w] = obs'.is_paused
                   /\ PauseSent(obs'.sent) =
                        IF was_paused[w]
                        THEN << [cmd |-> "pause", arg |-> 0] >>
                        ELSE <<>> ]_vars

\* a cycle whose position query failed ended in the handler: no relaunch
\* decision, no pause handling
C12_FailedQueryEndsThread ==
    /\ obs.step = "drift" /\ obs.query = <<NoReply>>
    /\ obs.escaped /\ obs.decision = "none"

(***************************************************************************)
(* Cached metadata (Spec)                                                  *)
(***************************************************************************)
\* C13: a metadata record stored in the cache under a key stays under that
\* key with the same content in every step, unless the step obtained a
\* record from the provider and stored a record under that key; and the
\* record the loop stores under the title key (lines 585-589) is in the
\* cache when the step that stored it has gone through the folder lookup
\* of the same cycle.
C13_MetadataStable ==
    [][ /\ \A k \in DOMAIN matches_cache :
             matches_cache[k].meta # NoMeta =>
               /\ k \in DOMAIN matches_cache'
               /\ \/ matches_cache'[k].meta = matches_cache[k].meta
                  \/ matches_cache'[k].meta # NoMeta /\ obs'.meta_calls > 0
        /\ \A k \in obs'.stored :
             /\ k \in DOMAIN matches_cache'
             /\ matches_cache'[k].meta # NoMeta ]_vars

\* the step that stored the fetched record under the title key popped that
\* key in the folder lookup that followed
C13_StoredThenEvicted ==
    /\ obs.step = "meta" /\ obs.stored # {}
    /\ obs.stored \subseteq obs.evicted
    /\ \A k \in obs.stored : k \notin DOMAIN matches_cache

(***************************************************************************)
(* Drift correction and the relaunch decision (Spec)                       *)
(***************************************************************************)
\* C20: a seek is sent only to a player launched for the identifier of the
\* cycle's session: a cycle whose session identifier differs from
\* last_played_guid sends no seek.
C20_SeekOnlyCurrentSession ==
    [][\A w \in Workers :
         (DriftCycle(w) /\ obs'.guid # last_played_guid)
           => SeekSent(obs'.sent) = <<>>]_vars

\* a cycle of another session sent a seek to the player of the previous one
C20_SeekToOldPlayer ==
    /\ obs.step = "drift" /\ obs.guid = G2 /\ last_played_guid = G1
    /\ SeekSent(obs.sent) = << [cmd |-> "seek", arg |-> 100] >>

(***************************************************************************)
(* Convergence of the loop (SpecLive)                                      *)
(***************************************************************************)
\* a step of the time from which the session stays active with identifier
\* G1 and launches do not fail: every cycle sees that session, Popen starts
\* a player that does not exit before the cycle that started it has ended,
\* and the window leaves the loop alone
SteadyStep ==
    /\ obs'.step \notin {"idle", "error"}
    /\ obs'.step = "head" => obs'.guid = G1
    /\ obs'.launch # "fail"
    /\ (\E w \in Workers : pc[w] = "launched") => alive \subseteq alive'
    /\ UNCHANGED <<sync_running, gui>>

\* a cycle has just ended with a live player and the session's identifier
\* remembered
Converged ==
    /\ \E w \in Workers : pc[w] = "sleep"
    /\ obs.step \in {"head", "meta", "drift", "scan", "pause"} /\ obs.guid = G1
    /\ is_mpv_running(current_process, alive)
    /\ last_played_guid = G1

\* C14: when from some cycle on the loop runs, the session stays active
\* with the same identifier (its episode file is in the library) and
\* launches do not fail, then again and again a cycle ends with the player
\* alive and last_played_guid equal to the session's identifier; and while
\* the loop is switched on, a cycle that reaches the decision of line 604
\* with no live player (as a cycle that ended with 'not found' or a failed
\* launch leaves it), or with an identifier other than last_played_guid,
\* always goes on to the matcher and, when the file is found, to the launch.
C14_Convergence ==
    /\ (<>[]sync_running /\ <>[][SteadyStep]_vars) => []<>Converged
    /\ [][\A w \in Workers :
            (StepOf(w) /\ sync_running /\ obs'.decision # "none"
                       /\ ( \/ ~is_mpv_running(current_process, alive)
                            \/ obs'.guid # last_played_guid ))
              => /\ obs'.decision = "launch"
                 /\ pc'[w] \in {"lookup", "popen"} \/ obs'.launch = "nofile"]_vars

\* a cycle launched the player from the resolved folder and ended with the
\* player alive for the session
C14_Witness ==
    /\ Converged /\ obs.step = "pause"
    /\ Resolved(G1)

(***************************************************************************)
(* Properties of the folder scan (SpecScan)                                *)
(***************************************************************************)
\* the candidate names of the call a state describes
NamesOf(o) ==
    Candidates(clean_title(o.title),
               get_anilist_metadata(o.title, o.env.resp).names, {})

\* the positions <<root, entry>> of the directories that exist, lie in a
\* root that can be listed and whose normalized name is equivalent to a
\* candidate
MatchingAt(names, fsNow, unreadable) ==
    { p \in UNION {{<<r, i>> : i \in 1..Len(Listing(ANIME_FOLDERS[r]))} :
                   r \in 1..Len(ANIME_FOLDERS)} :
        /\ ANIME_FOLDERS[p[1]] \notin unreadable
        /\ Listing(ANIME_FOLDERS[p[1]])[p[2]].dir
        /\ JoinPath(ANIME_FOLDERS[p[1]],
                    Listing(ANIME_FOLDERS[p[1]])[p[2]].name) \in fsNow
        /\ \E c \in names :
             folder_name_matches(
               clean_title(Listing(ANIME_FOLDERS[p[1]])[p[2]].name), c) }

\* p comes before q in scan order: earlier root, or same root and earlier
\* entry of its listing
ScansBefore(p, q) == p[1] < q[1] \/ (p[1] = q[1] /\ p[2] <= q[2])

\* C15: find_series_folder returns the matching directory that comes first
\* in scan order (roots in configured order, entries in listing order),
\* whatever the other matching directories are called and whichever
\* candidate they match, and None when no directory matches; the result
\* does not depend on whether the roots after the one of the match can be
\* listed.
C15_FirstMatch ==
    obs.step = "search" =>
      \E m \in {MatchingAt(NamesOf(obs), fs, obs.env.unreadable)} :
        /\ m = {} => obs.path = NoPath
        /\ m # {} =>
             \E p \in m :
               /\ \A q \in m : ScansBefore(p, q)
               /\ obs.path = JoinPath(ANIME_FOLDERS[p[1]],
                                      Listing(ANIME_FOLDERS[p[1]])[p[2]].name)
               /\ \A later \in SUBSET {ANIME_FOLDERS[r] :
                                       r \in (p[1] + 1)..Len(ANIME_FOLDERS)} :
                    ScanFrom(1, NamesOf(obs), fs,
                             obs.env.unreadable \cup later) = obs.path

\* the call returned the folder of the first root whose name is only a
\* prefix of the candidate although the second root holds a folder with
\* exactly the candidate's name
C15_Witness ==
    /\ obs.step = "search" /\ obs.title = TitleAbc
    /\ obs.path = JoinPath("r1", <<"A","b"," ","[","x","]">>)
    /\ JoinPath("r2", <<"a","b","c">>) \in fs
    /\ obs.env.unreadable = {}

(***************************************************************************)
(* Properties of the string helpers (SpecText)                             *)
(***************************************************************************)
\* x with the letter at position i in the other case
SwapCase(x, i) ==
    [x EXCEPT ![i] =
       IF x[i] \in Range(UpperChars) THEN LowerChar(x[i])
       ELSE IF x[i] \in Range(LowerChars)
       THEN UpperChars[CHOOSE k \in 1..Len(LowerChars) : LowerChars[k] = x[i]]
       ELSE x[i]]

\* x with character c put after its first i characters
InsertAt(x, i, c) == SubSeq(x, 1, i) \o <<c>> \o SubSeq(x, i + 1, Len(x))

\* C16: clean_title(clean_title(x)) = clean_title(x); the result holds only
\* characters of [a-z0-9]; and the result is the same for a title that
\* differs from x in the case of a letter, in a white-space or punctuation
\* character, or in the text from the first '(' or '[' on.
C16_Normalization ==
    obs.step = "cleaned" =>
      /\ obs.again = obs.out
      /\ \A i \in 1..Len(obs.out) :
           obs.out[i] \in Range(LowerChars) \cup Range(DigitChars)
      /\ \A i \in 1..Len(obs.x) : clean_title(SwapCase(obs.x, i)) = obs.out
      /\ \A i \in 0..Len(obs.x), c \in {" ", "-", ":"} :
           clean_title(InsertAt(obs.x, i, c)) = obs.out
      /\ Range(obs.x) \cap {"(", "["} = {} =>
           \A br \in {"(", "["}, tail \in StringsUpTo(TitleChars, 1) :
             clean_title(obs.x \o <<br>> \o tail) = obs.out

\* a title with a capital, white space, punctuation and a bracketed tail
\* was normalized
C16_Witness ==
    /\ obs.step = "cleaned"
    /\ obs.x = <<"B", " ", "-", "(">>
    /\ obs.out = <<"b">>

\* b occurs in a as a run of consecutive characters (equal strings and
\* prefixes included)
OccursIn(b, a) ==
    \E i \in 0..(Len(a) - Len(b)) : \A j \in 1..Len(b) : a[i + j] = b[j]

\* C17: folder_name_matches(a, b) = folder_name_matches(b, a) for all
\* normalized names a and b, the empty name included, and the result is
\* true exactly when both are non-empty and one is equal to, contains or is
\* a prefix of the other.
C17_Symmetric ==
    obs.step = "compared" =>
      /\ obs.ab = obs.ba
      /\ obs.ab <=> ( /\ obs.a # <<>> /\ obs.b # <<>>
                      /\ (OccursIn(obs.a, obs.b) \/ OccursIn(obs.b, obs.a)) )

\* a longer candidate that contains the entry's name matched in both orders
C17_Witness ==
    /\ obs.step = "compared"
    /\ obs.a = <<"b", "1">> /\ obs.b = <<"a", "b", "1">>
    /\ obs.ab /\ obs.ba

\* the folders of fsNow outside the roots of a set
OutsideRoots(fsNow, roots) == {p \in fsNow : p[1] \notin roots}

\* C18: a root whose listing raises is skipped and the later roots are
\* still scanned: when a root that can be listed holds a matching
\* directory, the call returns a directory of the first such root; the
\* result is the one of a call for which the unreadable roots are readable
\* and empty; and when no root yields a match the call returns None and
\* leaves the cache and the cache file as they were.
C18_UnreadableRoot ==
    obs.step = "search" =>
      \E m \in {MatchingAt(NamesOf(obs), fs, obs.env.unreadable)} :
        /\ m # {} =>
             /\ obs.path # NoPath
             /\ obs.path[1] \notin obs.env.unreadable
             /\ \E p \in m : /\ obs.path[1] = ANIME_FOLDERS[p[1]]
                             /\ \A q \in m : p[1] <= q[1]
        /\ m = {} =>
             /\ obs.path = NoPath /\ obs.via = "none"
             /\ matches_cache = EmptyCache /\ cache_file = EmptyCache
        /\ obs.path =
             find_series_folder(obs.title, obs.guid, EmptyCache, EmptyCache,
                                OutsideRoots(fs, obs.env.unreadable),
                                [obs.env EXCEPT !.unreadable = {}]).path

\* the first root could not be listed and the call returned the matching
\* folder of the second root, although the first root holds one too
C18_Witness ==
    /\ obs.step = "search" /\ obs.title = TitleAb
    /\ obs.env.unreadable = {"r1"}
    /\ JoinPath("r1", <<"A","b"," ","[","x","]">>) \in fs
    /\ obs.path = JoinPath("r2", <<"a","b","c">>)
    /\ matches_cache[TitleKey(<<"a","b">>)].path = obs.path

(***************************************************************************)
(* Properties of the episode finder (SpecEpisode)                          *)
(***************************************************************************)
\* the file name ends in a recognized video extension
HasVideoExt(name) == \E ext \in VideoExts : EndsWith(LowerStr(name), ext)

\* the lower-cased file name holds s<SS>e<EE> or <S>x<E> for season s and
\* episode e
NamesEpisode(name, s, e) ==
    \/ Contains(LowerStr(name), <<"s">> \o Pad2(s) \o <<"e">> \o Pad2(e))
    \/ Contains(LowerStr(name), Digits(s) \o <<"x">> \o Digits(e))

\* C19: find_local_episode returns the first file, in traversal order of
\* the matched folder, that has a recognized video extension and whose
\* lower-cased name holds one of the two patterns for the requested season
\* and episode; it returns None when no file is such or no folder was
\* matched, and never a file without a recognized video extension.
C19_EpisodeSearch ==
    obs.step = "found" =>
      /\ obs.folder = NoPath => obs.file = NoFile
      /\ obs.folder # NoPath =>
           \E files \in {EntryOf(obs.folder).files} :
           \E good \in {{i \in 1..Len(files) :
                           /\ HasVideoExt(files[i])
                           /\ NamesEpisode(files[i], obs.season, obs.episode)}} :
             /\ good = {} => obs.file = NoFile
             /\ good # {} =>
                  \E i \in good : /\ \A j \in good : i <= j
                                  /\ obs.file = <<obs.folder, files[i]>>
      /\ obs.file # NoFile => HasVideoExt(obs.file[2])

\* the call for season 1, episode 1 returned the video file that follows a
\* file with the same pattern and no video extension
C19_Witness ==
    /\ obs.step = "found" /\ obs.season = 1 /\ obs.episode = 1
    /\ obs.file # NoFile /\ HasVideoExt(obs.file[2])
    /\ \E files \in {EntryOf(obs.folder).files} :
       \E i \in 1..Len(files), j \in 1..Len(files) :
         /\ j < i /\ obs.file[2] = files[i]
         /\ NamesEpisode(files[j], 1, 1) /\ ~HasVideoExt(files[j])

(***************************************************************************)
(* Pause state of a launched player (Spec)                                 *)
(***************************************************************************)
\* thread w did the pause handling that follows a launch (lines 613-622)
\* on a started player that is alive; play_with_mpv starts it unpaused
LaunchCycle(w) ==
    /\ StepOf(w) /\ pc[w] = "launched"
    /\ is_mpv_running(current_process', alive')

\* C21: at the end of a cycle that launched a player, the player's pause
\* state equals the session's pause flag: the new player, which starts
\* unpaused, is sent a pause command exactly when the session is paused,
\* also when was_paused was already true.
C21_PauseAcrossRelaunch ==
    [][\A w \in Workers : LaunchCycle(w) =>
         ( (\E i \in 1..Len(obs'.sent) :
              obs'.sent[i] = [cmd |-> "pause", arg |-> 1])
           <=> obs'.is_paused )]_vars

\* a player was launched for a paused session and no command was sent to
\* it, because was_paused was still true from the player before
C21_UnpausedAfterRelaunch ==
    /\ obs.step = "pause" /\ obs.is_paused
    /\ obs.sent = <<>>
    /\ is_mpv_running(current_process, alive)
    /\ last_played_guid = obs.guid
    /\ \E w \in Workers : pc[w] = "sleep" /\ was_paused[w]

(***************************************************************************)
(* Stop and start of the loop (Spec)                                       *)
(***************************************************************************)
\* C22: from the return of stop_sync or on_close until start_sync is called
\* again (sync_running is false all that time) no player process is alive.
C22_StopEffective == ~sync_running => alive = {}

\* a loop thread that was inside a cycle when the window stopped the loop
\* has launched a player after the stop
C22_LaunchAfterStop ==
    /\ ~sync_running /\ gui = "mainloop"
    /\ obs.step = "launch" /\ obs.launch = "ok"
    /\ is_mpv_running(current_process, alive)

\* thread w is started and has not left sync_loop
Active(w) == pc[w] \notin {"unborn", "done"}

\* C23: when a thread of sync_loop starts a cycle, every other thread that
\* was started has left sync_loop: a thread started before a stop_sync has
\* seen the cleared flag before a later thread runs a cycle.
C23_OneWorker ==
    [][\A w \in Workers :
         (pc[w] = "check" /\ pc'[w] = "poll")
           => \A v \in Workers \ {w} : ~Active(v)]_vars

\* two threads are inside a cycle at the same time while the loop is
\* switched on
C23_TwoWorkers ==
    /\ sync_running
    /\ Cardinality({w \in Workers : pc[w] \in {"poll"} \cup Waits}) >= 2

(***************************************************************************)
(* Unknown player position (Spec)                                          *)
(***************************************************************************)
\* C24: a cycle whose position query yields no position (the pipe cannot be
\* opened, the reply does not parse, or the reply carries no data value)
\* sends no seek.
C24_UnknownNeverSeeks ==
    [][\A w \in Workers :
         ( /\ DriftCycle(w)
           /\ (~obs'.query[1].ok \/ obs'.query[1].data = <<>>) )
           => SeekSent(obs'.sent) = <<>>]_vars

\* the reply carried no data value and the cycle sent a seek to the
\* session's position
C24_SeekOnNoData ==
    /\ obs.step = "drift"
    /\ obs.query = << [ok |-> TRUE, data |-> <<>>] >>
    /\ SeekSent(obs.sent) = << [cmd |-> "seek", arg |-> 100] >>

====
